---- MODULE Spec2Model ----
(***************************************************************************)
(* A model of glyphmatcher (src/src/lib.rs): the outline-fingerprint       *)
(* database ShapeDb (add_outline, get) and the directory-backed, cached    *)
(* font store FontDb (get_db, check_font, font_report, add_font).          *)
(*                                                                         *)
(* Two specifications share the module.  DbSpec drives one ShapeDb with    *)
(* add_outline and get; FontSpec drives one FontDb shared by concurrent    *)
(* callers.  Each leaves the other's variables unchanged.                  *)
(***************************************************************************)
EXTENDS Integers, Sequences, FiniteSets, TLC

(***************************************************************************)
(* Bounds of the model.                                                    *)
(***************************************************************************)
MaxEntries == 2
MaxContours == 2
MaxRaw == 2
NumThreads == 2
MaxVersion == 2

NoneVal == "None"

(***************************************************************************)
(* Outlines.  A raw coordinate is an f32, modelled in half units: the raw  *)
(* value v stands for the coordinate v/2.  A contour is modelled by the set*)
(* of its raw points: both add_outline (through points_seen) and           *)
(* points_set discard the order and the multiplicity of a contour's points.*)
(* An outline is the sequence of its contours.                             *)
(***************************************************************************)
RawCoords == 1..MaxRaw
RawPoints == {<<x, 0>> : x \in RawCoords}
RawContours == SUBSET RawPoints
Outlines == UNION {[1..n -> RawContours] : n \in 0..MaxContours}
Labels == {"a", "b"}

\* `p.x() as u16`: an f32 to u16 cast truncates toward zero and saturates.
AsU16(v) ==
    IF v < 0 THEN 0
    ELSE IF v \div 2 > 65535 THEN 65535
    ELSE v \div 2

\* key = (p.x() as u16, p.y() as u16)
Key(p) == <<AsU16(p[1]), AsU16(p[2])>>

\* fn points_set(contour) -> HashSet<(u16, u16)>
points_set(contour) == {Key(p) : p \in contour}

\* The keys for which points_seen.insert(key) is true while walking all the
\* contours of an outline: every distinct key of the outline, once.
FirstSeenKeys(outline) == UNION {points_set(outline[i]) : i \in DOMAIN outline}

Range(s) == {s[i] : i \in DOMAIN s}

VARIABLES
    entries,    \* ShapeDb.entries: Vec<(I, Vec<HashSet<(u16,u16)>>)>
    points,     \* ShapeDb.points: HashMap<(u16,u16), Vec<usize>>
    got,        \* the last call of get on the database as it is: its outline and outcome
    cache,      \* FontDb.cache: HashMap<String, Option<Arc<ShapeDb>>>
    file,       \* the database directory: what the file named ps_name holds
    pc,         \* per caller: the position inside the running FontDb method
    op,         \* per caller: the method it runs
    arg,        \* per caller: ps_name (lookups) or the font file (add_font)
    db,         \* per caller: the local `db` of get_db
    result,     \* per caller: what the method returned
    hit,        \* per caller: the cache read at the top of get_db found an entry
    looked      \* per caller: get_db went to the disk during this call

dbVars == <<entries, points, got>>
fontVars == <<cache, file, pc, op, arg, db, result, hit, looked>>
vars == <<entries, points, got, cache, file, pc, op, arg, db, result, hit, looked>>

(***************************************************************************)
(* ShapeDb::new and ShapeDb::add_outline                                   *)
(***************************************************************************)
\* ShapeDb::new(): no entries, an empty index.
NewEntries == <<>>
NewPoints == <<>>

\* A variant of IndexedPoints that indexes the points of the first contour only.
IndexedPoints_FirstContourOnly(pts, outline, val_idx) ==
    LET keys == IF Len(outline) = 0 THEN {} ELSE points_set(outline[1])
    IN  [k \in DOMAIN pts \cup keys |->
            IF k \in keys
            THEN Append(IF k \in DOMAIN pts THEN pts[k] ELSE <<>>, val_idx)
            ELSE pts[k]]

\* self.points.entry(key).or_default().push(val_idx), for every first-seen key.
IndexedPoints(pts, outline, val_idx) ==
    LET keys == FirstSeenKeys(outline)
    IN  [k \in DOMAIN pts \cup keys |->
            IF k \in keys
            THEN Append(IF k \in DOMAIN pts THEN pts[k] ELSE <<>>, val_idx)
            ELSE pts[k]]

\* outline.contours().iter().map(points_set).collect()
StoredContours(outline) == [i \in DOMAIN outline |-> points_set(outline[i])]

\* No call of get has been made on the database as it is.
NoGet == [called |-> FALSE, q |-> <<>>, r |-> NoneVal, idx |-> -1,
          visited |-> <<>>, report |-> <<>>]

\* pub fn add_outline(&mut self, outline, value).  The label get returned
\* borrows from &self, so no outcome of get is alive across this &mut self
\* call: the record of the last get is dropped.
add_outline(outline, value) ==
    /\ Len(entries) < MaxEntries
    /\ LET val_idx == Len(entries)
       IN  /\ points' = IndexedPoints(points, outline, val_idx)
           /\ entries' = Append(entries, [s |-> value, contours |-> StoredContours(outline)])
    /\ got' = NoGet
    /\ UNCHANGED fontVars

(***************************************************************************)
(* ShapeDb::get                                                            *)
(***************************************************************************)
\* *candiates.entry(idx).or_default() += 1: one increment for every place
\* where idx stands in the list of a first-seen key of the query.
HitCount(keys, pts, idx) ==
    Cardinality(UNION {{<<k, i>> : i \in {j \in DOMAIN pts[k] : pts[k][j] = idx}} :
                          k \in keys \cap DOMAIN pts})

\* The map `candiates`: entry index -> hits, for the indices some key lists.
Candidates(pts, outline) ==
    LET keys == FirstSeenKeys(outline)
        idxs == UNION {Range(pts[k]) : k \in keys \cap DOMAIN pts}
    IN  [idx \in idxs |-> HitCount(keys, pts, idx)]

Injective(f) == \A i, j \in DOMAIN f : f[i] = f[j] => i = j

\* A variant of VisitOrders that walks the sorted candidates from the front.
VisitOrders_Ascending(cands) ==
    {o \in [1..Cardinality(DOMAIN cands) -> DOMAIN cands] :
        /\ Injective(o)
        /\ \A i, j \in DOMAIN o : i < j => cands[o[i]] <= cands[o[j]]}

\* candiates.into_iter().collect(); sort_by_key(|t| t.1); iter().rev():
\* the HashMap hands the candidates over in an order of its own (its hasher is
\* seeded per map), the stable sort orders them by hits and keeps that order
\* among equal hits, and the walk goes from the back.  Every sequence of all
\* the candidates with non-increasing hits is a possible walk.
VisitOrders(cands) ==
    {o \in [1..Cardinality(DOMAIN cands) -> DOMAIN cands] :
        /\ Injective(o)
        /\ \A i, j \in DOMAIN o : i < j => cands[o[i]] >= cands[o[j]]}

\* Variants of CountMismatch: the comparison inverted, and the guard left out.
CountMismatch_Inverted(contours, outline) == Len(contours) = Len(outline)

CountMismatch_Never(contours, outline) == FALSE

\* contours.len() != outline.contours().len()
CountMismatch(contours, outline) == Len(contours) # Len(outline)

RECURSIVE ScanStored(_, _, _, _, _)
\* for (r_c_i, r_s) in contours.iter().enumerate(): skip a used contour, mark
\* an equal one used, report an unequal one.  The loop has no break: it goes on
\* through the rest of the stored contours after a match.
ScanStored(t_s, contours, used, lines, r) ==
    IF r > Len(contours) THEN [used |-> used, lines |-> lines]
    ELSE IF used[r] THEN ScanStored(t_s, contours, used, lines, r + 1)
    ELSE IF t_s = contours[r]
         THEN ScanStored(t_s, contours, [used EXCEPT ![r] = TRUE], lines, r + 1)
         ELSE ScanStored(t_s, contours, used,
                  Append(lines, <<"points do not match",
                                  Cardinality(t_s \ contours[r]), Cardinality(t_s)>>),
                  r + 1)

RECURSIVE MatchContours(_, _, _, _, _)
\* let mut used = vec![false; contours.len()];
\* for t_c in outline.contours().iter() { let t_s = points_set(t_c); ... }
MatchContours(outline, contours, used, lines, t) ==
    IF t > Len(outline) THEN [used |-> used, lines |-> lines]
    ELSE LET step == ScanStored(points_set(outline[t]), contours, used, lines, 1)
         IN  MatchContours(outline, contours, step.used, step.lines, t + 1)

\* used.iter().all(|&b| b)
AllUsed(used) == \A i \in DOMAIN used : used[i]

RECURSIVE Walk(_, _, _, _, _, _)
\* for &(idx, n) in candiates.iter().rev() { ... }: the outcome of the walk from
\* position i of the order: the label returned (or None), the index of the
\* entry it belongs to, the candidates examined and the report written.
Walk(ents, outline, cands, order, i, acc) ==
    IF i > Len(order)
    THEN [called |-> TRUE, q |-> outline, r |-> NoneVal, idx |-> -1,
          visited |-> acc.visited, report |-> acc.report]
    ELSE LET idx == order[i]
             s == ents[idx + 1].s
             contours == ents[idx + 1].contours
             seen == Append(acc.visited, <<idx, cands[idx]>>)
             head == Append(acc.report, <<"candiate", s>>)
         IN  IF CountMismatch(contours, outline)
             THEN Walk(ents, outline, cands, order, i + 1,
                       [visited |-> seen,
                        report |-> Append(head, <<"incorrect number of contours",
                                                  Len(contours), Len(outline)>>)])
             ELSE LET m == MatchContours(outline, contours,
                                         [j \in DOMAIN contours |-> FALSE], head, 1)
                      full == Append(m.lines, <<"Unicode", s, m.used>>)
                  IN  IF AllUsed(m.used)
                      THEN [called |-> TRUE, q |-> outline, r |-> s, idx |-> idx,
                            visited |-> seen, report |-> full]
                      ELSE Walk(ents, outline, cands, order, i + 1,
                                [visited |-> seen, report |-> full])

\* pub fn get(&self, outline, report) -> Option<&I>, with a report collector.
get(outline) ==
    /\ LET cands == Candidates(points, outline)
       IN  \E order \in VisitOrders(cands) :
              got' = Walk(entries, outline, cands, order, 1,
                          [visited |-> <<>>, report |-> <<>>])
    /\ UNCHANGED <<entries, points>>
    /\ UNCHANGED fontVars


DbInit ==
    /\ entries = NewEntries
    /\ points = NewPoints
    /\ got = NoGet

DbNext ==
    \/ \E outline \in Outlines, value \in Labels : add_outline(outline, value)
    \/ \E outline \in Outlines : get(outline)

(***************************************************************************)
(* FontDb.  A database file holds a serialized ShapeDb; the model keeps    *)
(* the identity (a version) of the database a file or an Arc holds.  A     *)
(* file that exists but does not deserialize (corrupt, or truncated by a   *)
(* write in progress) is <<"corrupt">>.                                    *)
(***************************************************************************)
Names == {"F", "G"}
Versions == 1..MaxVersion
Threads == 1..NumThreads

NoFile == <<"nofile">>
CorruptFile == <<"corrupt">>
DbFile(v) == <<"db", v>>
FileStates == {NoFile, CorruptFile} \cup {DbFile(v) : v \in Versions}

None == <<"None">>
Some(v) == <<"Some", v>>

\* The font files add_font may be given: one that cannot be read or parsed,
\* one without a postscript name, one read_font yields no database for, and
\* one with a name and a database.
FontFiles ==
    {<<"unreadable", "", 0>>, <<"nops", "", 0>>}
        \cup {<<"nodb", n, 0>> : n \in Names}
        \cup {<<"font", n, v>> : n \in Names, v \in Versions}

\* A panic, with the place that raised it.
Panic(where) == <<"panic", where>>
NoResult == <<>>

CanCall(t) == pc[t] \in {"idle", "done", "panicked"}

Begin(t, o, a, first) ==
    /\ CanCall(t)
    /\ pc' = [pc EXCEPT ![t] = first]
    /\ op' = [op EXCEPT ![t] = o]
    /\ arg' = [arg EXCEPT ![t] = a]
    /\ db' = [db EXCEPT ![t] = None]
    /\ result' = [result EXCEPT ![t] = NoResult]
    /\ hit' = [hit EXCEPT ![t] = FALSE]
    /\ looked' = [looked EXCEPT ![t] = FALSE]
    /\ UNCHANGED <<cache, file>>
    /\ UNCHANGED dbVars

\* pub fn check_font(&self, ps_name, font): entered, about to call get_db.
check_font(t, ps_name) == Begin(t, "check_font", <<"lookup", ps_name, 0>>, "cache_read")

\* pub fn font_report(&self, ps_name, font): entered, about to call get_db.
font_report(t, ps_name) == Begin(t, "font_report", <<"lookup", ps_name, 0>>, "cache_read")

\* pub fn add_font(&self, font_path): entered, about to read the font file.
add_font(t, font_file) == Begin(t, "add_font", font_file, "read_font")

\* What the caller of get_db does with the value it returns.
\*   check_font:  let db = self.get_db(ps_name)?; check_font(&db, ..).map(Arc::new)
\*   font_report: let db = self.get_db(ps_name).unwrap(); ...; report
AfterGetDb(o, d) ==
    IF o = "check_font"
    THEN [pc |-> "done", result |-> IF d = None THEN None ELSE <<"Some", d[2]>>]
    ELSE IF d = None
         THEN [pc |-> "panicked", result |-> Panic("unwrap on None")]
         ELSE [pc |-> "done", result |-> <<"report", d[2]>>]

\* if let Some(cached) = self.cache.read().unwrap().get(ps_name) { return cached.clone(); }
CacheRead(t) ==
    /\ pc[t] = "cache_read"
    /\ LET ps_name == arg[t][2]
       IN  IF ps_name \in DOMAIN cache
           THEN LET after == AfterGetDb(op[t], cache[ps_name])
                IN  /\ pc' = [pc EXCEPT ![t] = after.pc]
                    /\ result' = [result EXCEPT ![t] = after.result]
                    /\ db' = [db EXCEPT ![t] = cache[ps_name]]
                    /\ hit' = [hit EXCEPT ![t] = TRUE]
           ELSE /\ pc' = [pc EXCEPT ![t] = "is_file"]
                /\ UNCHANGED <<result, db, hit>>
    /\ UNCHANGED <<cache, file, op, arg, looked>>
    /\ UNCHANGED dbVars

\* let db = if file_path.is_file() { ... } else { None };
IsFile(t) ==
    /\ pc[t] = "is_file"
    /\ looked' = [looked EXCEPT ![t] = TRUE]
    /\ IF file[arg[t][2]] # NoFile
       THEN pc' = [pc EXCEPT ![t] = "load"]
       ELSE pc' = [pc EXCEPT ![t] = "insert"]
    /\ UNCHANGED <<cache, file, op, arg, db, result, hit>>
    /\ UNCHANGED dbVars

\* A variant of LoadFile that takes a file it cannot deserialize for no database.
LoadFile_CorruptAsAbsent(t) ==
    /\ pc[t] = "load"
    /\ LET f == file[arg[t][2]]
       IN  /\ db' = [db EXCEPT ![t] = IF f[1] = "db" THEN Some(f[2]) ELSE None]
           /\ pc' = [pc EXCEPT ![t] = "insert"]
           /\ UNCHANGED result
    /\ UNCHANGED <<cache, file, op, arg, hit, looked>>
    /\ UNCHANGED dbVars

\* Some(Arc::new(postcard::from_bytes(&std::fs::read(&file_path).unwrap()).unwrap())):
\* either unwrap panics, outside any lock, when the file does not yield a database.
LoadFile(t) ==
    /\ pc[t] = "load"
    /\ LET f == file[arg[t][2]]
       IN  IF f[1] = "db"
           THEN /\ db' = [db EXCEPT ![t] = Some(f[2])]
                /\ pc' = [pc EXCEPT ![t] = "insert"]
                /\ UNCHANGED result
           ELSE /\ pc' = [pc EXCEPT ![t] = "panicked"]
                /\ result' = [result EXCEPT ![t] = Panic("from_bytes")]
                /\ UNCHANGED db
    /\ UNCHANGED <<cache, file, op, arg, hit, looked>>
    /\ UNCHANGED dbVars

\* A variant of CacheInsert that caches databases only, not absence.
CacheInsert_SkipAbsent(t) ==
    /\ pc[t] = "insert"
    /\ LET ps_name == arg[t][2]
           after == AfterGetDb(op[t], db[t])
       IN  /\ cache' = IF db[t] = None THEN cache
                       ELSE [n \in DOMAIN cache \cup {ps_name} |->
                                IF n = ps_name THEN db[t] ELSE cache[n]]
           /\ pc' = [pc EXCEPT ![t] = after.pc]
           /\ result' = [result EXCEPT ![t] = after.result]
    /\ UNCHANGED <<file, op, arg, db, hit, looked>>
    /\ UNCHANGED dbVars

\* self.cache.write().unwrap().insert(ps_name.into(), db.clone()); db
CacheInsert(t) ==
    /\ pc[t] = "insert"
    /\ LET ps_name == arg[t][2]
           after == AfterGetDb(op[t], db[t])
       IN  /\ cache' = [n \in DOMAIN cache \cup {ps_name} |->
                           IF n = ps_name THEN db[t] ELSE cache[n]]
           /\ pc' = [pc EXCEPT ![t] = after.pc]
           /\ result' = [result EXCEPT ![t] = after.result]
    /\ UNCHANGED <<file, op, arg, db, hit, looked>>
    /\ UNCHANGED dbVars

\* fn add_font(db_dir, font_file), up to the write: fs::read(..).unwrap(),
\* font::parse(..).unwrap(), the postscript name, read_font, to_allocvec.
ReadFont(t) ==
    /\ pc[t] = "read_font"
    /\ LET kind == arg[t][1]
       IN  IF kind = "unreadable"
           THEN /\ pc' = [pc EXCEPT ![t] = "panicked"]
                /\ result' = [result EXCEPT ![t] = Panic("font file")]
           ELSE IF kind \in {"nops", "nodb"}
           THEN /\ pc' = [pc EXCEPT ![t] = "done"]
                /\ result' = [result EXCEPT ![t] = <<"unit">>]
           ELSE /\ pc' = [pc EXCEPT ![t] = "fs_create"]
                /\ UNCHANGED result
    /\ UNCHANGED <<cache, file, op, arg, db, hit, looked>>
    /\ UNCHANGED dbVars

\* std::fs::write(db_dir.join(ps_name), &db_data): the file is created or
\* truncated first ...
FsWriteCreate(t) ==
    /\ pc[t] = "fs_create"
    /\ file' = [file EXCEPT ![arg[t][2]] = CorruptFile]
    /\ pc' = [pc EXCEPT ![t] = "fs_data"]
    /\ UNCHANGED <<cache, op, arg, db, result, hit, looked>>
    /\ UNCHANGED dbVars

\* ... and then holds the serialized database.
FsWriteData(t) ==
    /\ pc[t] = "fs_data"
    /\ file' = [file EXCEPT ![arg[t][2]] = DbFile(arg[t][3])]
    /\ pc' = [pc EXCEPT ![t] = "done"]
    /\ result' = [result EXCEPT ![t] = <<"unit">>]
    /\ UNCHANGED <<cache, op, arg, db, hit, looked>>
    /\ UNCHANGED dbVars

\* FontDb::new(path): an empty cache over a directory that holds whatever
\* earlier processes left in it.
FontInit ==
    /\ cache = <<>>
    /\ file \in [Names -> FileStates]
    /\ pc = [t \in Threads |-> "idle"]
    /\ op = [t \in Threads |-> "none"]
    /\ arg = [t \in Threads |-> <<"none", "", 0>>]
    /\ db = [t \in Threads |-> None]
    /\ result = [t \in Threads |-> NoResult]
    /\ hit = [t \in Threads |-> FALSE]
    /\ looked = [t \in Threads |-> FALSE]

FontNext ==
    \/ \E t \in Threads, ps_name \in Names : check_font(t, ps_name)
    \/ \E t \in Threads, ps_name \in Names : font_report(t, ps_name)
    \/ \E t \in Threads, font_file \in FontFiles : add_font(t, font_file)
    \/ \E t \in Threads : CacheRead(t)
    \/ \E t \in Threads : IsFile(t)
    \/ \E t \in Threads : LoadFile(t)
    \/ \E t \in Threads : CacheInsert(t)
    \/ \E t \in Threads : ReadFont(t)
    \/ \E t \in Threads : FsWriteCreate(t)
    \/ \E t \in Threads : FsWriteData(t)

\* The FontDb while only the ShapeDb is exercised, and the reverse.
FontIdle ==
    /\ cache = <<>>
    /\ file = [n \in Names |-> NoFile]
    /\ pc = [t \in Threads |-> "idle"]
    /\ op = [t \in Threads |-> "none"]
    /\ arg = [t \in Threads |-> <<"none", "", 0>>]
    /\ db = [t \in Threads |-> None]
    /\ result = [t \in Threads |-> NoResult]
    /\ hit = [t \in Threads |-> FALSE]
    /\ looked = [t \in Threads |-> FALSE]

DbSpecInit == DbInit /\ FontIdle
DbSpec == DbSpecInit /\ [][DbNext]_vars

FontSpecInit == FontInit /\ DbInit
FontSpec == FontSpecInit /\ [][FontNext]_vars

(***************************************************************************)
(* Properties of ShapeDb, checked under DbSpec.                            *)
(***************************************************************************)
\* The quantized contours and the quantized points of the last query.
QContours == StoredContours(got.q)
QKeys == FirstSeenKeys(got.q)

\* The quantized points of the outline stored as entry idx (0-based).
EntryKeys(idx) == UNION Range(entries[idx + 1].contours)

\* The number of distinct quantized points the last query shares with entry idx.
Overlap(idx) == Cardinality(QKeys \cap EntryKeys(idx))

\* Entry idx passes the contour check of get against the last query.
Passes(idx) ==
    LET contours == entries[idx + 1].contours
    IN  /\ ~CountMismatch(contours, got.q)
        /\ AllUsed(MatchContours(got.q, contours,
                                 [j \in DOMAIN contours |-> FALSE], <<>>, 1).used)

\* The contours qcs can be paired one-to-one with the contours scs, each pair
\* set-equal.  Set equality is an equivalence, so a pairing exists exactly when
\* the pass in which each query contour claims the first unused equal stored
\* contour, and only that one, pairs them all.
PairedOneToOne(qcs, scs) ==
    /\ Len(qcs) = Len(scs)
    /\ \E f \in [DOMAIN qcs -> DOMAIN scs] :
          /\ Injective(f)
          /\ \A i \in DOMAIN qcs : qcs[i] = scs[f[i]]

\* No contour of entry j (1-based) equals a contour of entry i.
ContoursDistinct(i, j) ==
    \A a \in DOMAIN entries[i].contours, b \in DOMAIN entries[j].contours :
        entries[i].contours[a] # entries[j].contours[b]

\* Entry i (1-based) holds the outline of the last query, and every other
\* entry's contours are distinct from its contours.
SelfQuery(i) ==
    /\ got.called
    /\ entries[i].contours = QContours
    /\ \A j \in DOMAIN entries : j # i => ContoursDistinct(i, j)

\* C1: get never returns a false positive: it returns the label of entry e only
\* if the query contours pair one-to-one with e's stored contours, each pair
\* set-equal; and a query whose point set is a strict subset of, or disjoint
\* from, the only stored outline's point set returns absence.
C1_NoFalsePositive ==
    got.called =>
        /\ got.idx # -1 =>
              /\ got.r = entries[got.idx + 1].s
              /\ PairedOneToOne(QContours, entries[got.idx + 1].contours)
        /\ (Len(entries) = 1
              /\ \/ (QKeys \subseteq EntryKeys(0) /\ QKeys # EntryKeys(0))
                 \/ QKeys \cap EntryKeys(0) = {})
             => got.r = NoneVal

\* C2 as stated: after add_outline(O, L), whatever O is (also without contours
\* or without points), and with every other entry's contours distinct from
\* O's, get(O) returns L.
C2_SelfMatchAnyOutline ==
    \A i \in DOMAIN entries : SelfQuery(i) => got.r = entries[i].s

\* C2 as amended: the same for every outline O that has at least one point.
C2_SelfMatch ==
    \A i \in DOMAIN entries :
        (SelfQuery(i) /\ QKeys # {}) => (got.r = entries[i].s /\ got.idx = i - 1)

\* A self-query answered from a database of two entries that share a point.
C2_Witness ==
    /\ Len(entries) = 2
    /\ SelfQuery(1)
    /\ Len(got.q) = 2
    /\ EntryKeys(1) \cap QKeys # {}
    /\ got.r = entries[1].s
    /\ entries[2].s # entries[1].s

\* C3: determinism: two executions of get with the same outline against the
\* same unchanged database return the same label (or both absence) and write
\* the same report, also among candidates with equal hit counts.
C3_Determinism ==
    [][(got.called /\ got'.called /\ got'.q = got.q
          /\ entries' = entries /\ points' = points)
        => (got'.r = got.r /\ got'.report = got.report)]_vars

\* C7: index soundness: for every entry index i and every quantized point p of
\* a contour of entries[i], points[p] exists and contains i; and every list
\* stored in points is non-empty.
C7_IndexSound ==
    /\ \A i \in DOMAIN entries : \A c \in DOMAIN entries[i].contours :
          \A p \in entries[i].contours[c] :
              p \in DOMAIN points /\ (i - 1) \in Range(points[p])
    /\ \A k \in DOMAIN points : Len(points[k]) > 0

\* Two entries, the second with a point that only its second contour holds.
C7_Witness ==
    /\ Len(entries) = 2
    /\ Len(entries[2].contours) = 2
    /\ \E p \in entries[2].contours[2] :
          /\ p \notin entries[2].contours[1]
          /\ p \notin EntryKeys(0)
          /\ points[p] = <<1>>

\* C9: contour-count guard: a query whose number of contours differs from the
\* stored contour count of every entry gets absence, however many quantized
\* points it shares with stored entries.
C9_ContourCountGuard ==
    (got.called /\ \A i \in DOMAIN entries : Len(entries[i].contours) # Len(got.q))
        => (got.r = NoneVal /\ got.idx = -1)

\* The guard rejects a candidate that holds every point of the query and whose
\* contours the query's contours all equal.
C9_Witness ==
    /\ got.called
    /\ Len(entries) = 2
    /\ \A i \in DOMAIN entries : Len(entries[i].contours) # Len(got.q)
    /\ Len(got.visited) = 2
    /\ \E i \in DOMAIN entries :
          /\ EntryKeys(i - 1) = QKeys
          /\ \A c \in DOMAIN QContours : QContours[c] \in Range(entries[i].contours)
    /\ got.r = NoneVal

\* C10: candidate ranking: a candidate's hit count is the number of distinct
\* quantized points the query shares with the entry; get examines candidates
\* in non-increasing hit-count order and returns the label of the first that
\* passes the contour check, so no entry with a strictly greater hit count
\* passes it; and get returns absence only if no candidate passes it.
C10_Ranking ==
    got.called =>
        LET v == got.visited
            last == Len(v)
        IN  /\ \A k \in DOMAIN v : v[k][2] = Overlap(v[k][1])
            /\ \A j, k \in DOMAIN v : j < k => v[j][2] >= v[k][2]
            /\ \A k \in DOMAIN v : (k < last \/ got.idx = -1) => ~Passes(v[k][1])
            /\ got.idx # -1 =>
                  /\ last > 0 /\ v[last][1] = got.idx
                  /\ Passes(got.idx)
                  /\ got.r = entries[got.idx + 1].s
                  /\ \A i \in DOMAIN entries :
                        Overlap(i - 1) > Overlap(got.idx) => ~Passes(i - 1)
            /\ got.idx = -1 =>
                  /\ got.r = NoneVal
                  /\ \A i \in DOMAIN entries : Overlap(i - 1) >= 1 => ~Passes(i - 1)

\* get returns the entry with more hits while an entry with fewer hits passes
\* the contour check too.
C10_Witness ==
    /\ got.called
    /\ got.idx # -1
    /\ \E i \in DOMAIN entries :
          /\ Overlap(i - 1) >= 1
          /\ Overlap(i - 1) < Overlap(got.idx)
          /\ Passes(i - 1)
          /\ entries[i].s # got.r

(***************************************************************************)
(* Properties of FontDb, checked under FontSpec.                           *)
(***************************************************************************)
Lookup(t) == op[t] \in {"check_font", "font_report"}
Ended(t) == pc[t] \in {"done", "panicked"}
NameOf(t) == arg[t][2]

\* The call of get_db made by t has returned (db[t] is what it returned).
Returned(t) == Lookup(t) /\ Ended(t) /\ result[t] # Panic("from_bytes")

\* C4: when no database exists for the requested font name (no cache entry or a
\* cached absent entry, and no on-disk file), check_font and font_report both
\* complete with an absence outcome and neither panics.
C4_AbsenceWithoutPanic ==
    \A t \in Threads :
        (Lookup(t) /\ Ended(t) /\ file[NameOf(t)] = NoFile)
            => (pc[t] = "done" /\ result[t] = None)

\* Two callers that both missed the cache on the same name got the same
\* outcome from get_db, and it is the one the cache holds.
RaceAgrees ==
    \A t, u \in Threads :
        (Returned(t) /\ Returned(u) /\ ~hit[t] /\ ~hit[u] /\ NameOf(t) = NameOf(u))
            => /\ db[t] = db[u]
               /\ NameOf(t) \in DOMAIN cache
               /\ cache[NameOf(t)] = db[t]

\* C5: cache entries are stable under concurrency: once the cache holds an
\* outcome for a font name, the entry is never removed or replaced by a
\* different outcome, and two callers racing on the same miss both return the
\* same outcome, the one left in the cache.
C5_CacheStable ==
    [][/\ \A n \in DOMAIN cache : n \in DOMAIN cache' /\ cache'[n] = cache[n]
       /\ RaceAgrees']_vars

\* A check_font call on a name without a file has returned absence and the
\* name is recorded absent; no name without a file is cached with a database.
AbsenceRecorded ==
    /\ \A t \in Threads :
          (op[t] = "check_font" /\ pc[t] = "done" /\ file[NameOf(t)] = NoFile)
              => /\ result[t] = None
                 /\ NameOf(t) \in DOMAIN cache
                 /\ cache[NameOf(t)] = None
                 /\ hit[t] = ~looked[t]
    /\ \A n \in DOMAIN cache : file[n] = NoFile => cache[n] = None

\* A check_font call that starts when the name is recorded absent ends at its
\* cache read: absence, no disk lookup, the cache as it was.
AnsweredFromCache ==
    \A t \in Threads :
        (/\ op[t] = "check_font" /\ pc[t] = "cache_read" /\ pc'[t] # "cache_read"
         /\ NameOf(t) \in DOMAIN cache
         /\ cache[NameOf(t)] = None)
            => /\ pc'[t] = "done"
               /\ result'[t] = None
               /\ hit'[t] /\ ~looked'[t]
               /\ cache' = cache /\ file' = file

\* C6: confirmed-absence caching: for a font name with no on-disk database
\* file, the first check_font call returns absence and records the name as
\* absent in the cache, and every later check_font call for that name returns
\* absence from the cache, without a disk lookup and without a database ever
\* being materialized.
C6_AbsenceCached == [][AbsenceRecorded' /\ AnsweredFromCache]_vars

\* One caller found the name absent on disk, a later call was answered from
\* the cache.
C6_Witness ==
    \E t, u \in Threads :
        /\ t # u
        /\ op[t] = "check_font" /\ op[u] = "check_font"
        /\ pc[t] = "done" /\ pc[u] = "done"
        /\ NameOf(t) = NameOf(u)
        /\ file[NameOf(t)] = NoFile
        /\ looked[t] /\ ~hit[t] /\ result[t] = None
        /\ hit[u] /\ ~looked[u] /\ result[u] = None

\* C8: a lookup of a name whose file exists but is corrupt or unreadable ends
\* in a failure surfaced to the caller, never in absence, and leaves the cache
\* unchanged (the name is not recorded absent); lookups of other names go on.
C8_CorruptFileFails ==
    [][\A t \in Threads :
          (pc[t] = "load" /\ pc'[t] # "load" /\ file[NameOf(t)] = CorruptFile)
              => /\ pc'[t] = "panicked"
                 /\ result'[t] = Panic("from_bytes")
                 /\ cache' = cache
                 /\ \A u \in Threads \ {t} : pc'[u] = pc[u]]_vars

\* A lookup has failed on a corrupt file, its name is not in the cache, and
\* a lookup of another name has been answered with its database.
C8_Witness ==
    \E t, u \in Threads :
        /\ Lookup(t) /\ result[t] = Panic("from_bytes")
        /\ file[NameOf(t)] = CorruptFile
        /\ NameOf(t) \notin DOMAIN cache
        /\ op[u] = "check_font" /\ pc[u] = "done"
        /\ NameOf(u) # NameOf(t)
        /\ hit[u] /\ result[u] # None

====
